---- MODULE Spec2Model ----
(***************************************************************************)
(* Servicer-change detection over monthly loan-level snapshots.            *)
(*                                                                         *)
(* Three scripts are modelled as one state machine; `pipeline` says which  *)
(* script is running:                                                      *)
(*   "mlld"  - FNMA MLLD, month-over-month differencing                    *)
(*   "fhlmc" - FHLMC FU,  month-over-month differencing                    *)
(*   "gnma"  - GNMA, transfers flagged by the Seller Issuer ID field       *)
(*                                                                         *)
(* A DataFrame is modelled as the set of its rows (a record per row): the  *)
(* scripts never read the physical order of a frame except through         *)
(* group_by / unique / sort, whose unspecified output order is modelled as *)
(* a nondeterministic choice where it becomes observable (the final sort,  *)
(* the row kept by unique).  Balances are exact numbers here; IEEE         *)
(* rounding of the Float64 sums is not modelled.                           *)
(***************************************************************************)
EXTENDS Integers, Sequences, FiniteSets, TLC

VARIABLES
  pipeline,     \* which script runs
  disk,         \* names (stems) of the period files present in the data directory/ies
  unreadable,   \* the files that turned out to be unreadable when they were opened
  pc,           \* position in main()
  files,        \* sorted(DATA_DIR.glob(...)) / months (gnma), once discovered
  i,            \* loop variable of the month loop (0-based as in the code)
  df_prev,      \* differencing: previous snapshot
  df_curr,      \* differencing: current snapshot
  changed,      \* differencing: joined rows whose servicer differs (local of the step)
  all_results,  \* list of the per-step aggregates
  combined,     \* the final sorted table (what write_csv receives)
  name_map,     \* gnma: issuer id -> name lookup
  refs,         \* gnma: contents of the reference files read so far, per source
  month_frames, \* gnma: frames of the period's files read so far
  skipped,      \* gnma: files of the current period passed over by `continue`
  df_month,     \* gnma: deduplicated, parsed snapshot of the current period
  transfers,    \* gnma: rows of df_month with a populated Seller Issuer ID
  held,         \* per local name of main(): the files whose rows its object holds
  trace         \* history: the loads and the steps of the run, in order

vars == <<pipeline, disk, unreadable, pc, files, i, df_prev, df_curr, changed,
          all_results, combined, name_map, refs, month_frames, skipped,
          df_month, transfers, held, trace>>

-----------------------------------------------------------------------------
(* Bounds of the model                                                     *)

\* balances in the differencing snapshots range over 0..MaxUpb
MaxUpb == 1
\* a reference file (nissues D, issrcutoff) holds at most MaxRefRows rows
MaxRefRows == 2

-----------------------------------------------------------------------------
(* Missing values (polars null) and optional values                        *)

Null == << >>
Some(v) == <<v>>
IsNull(x) == x = Null
Val(x) == x[1]

Min(a, b) == IF a <= b THEN a ELSE b

-----------------------------------------------------------------------------
(* Strings: characters, ordering, split, strip                             *)

CharAt(s, k) == SubSeq(s, k, k)

\* the characters that occur in the model's strings, in code-point order
Alphabet == " 0123456789:ABCDEFGHIJKLMNOPQRSTUVWXYZ_abcdefghijklmnopqrstuvwxyz"

Ord(c) == CHOOSE k \in 1..Len(Alphabet) : CharAt(Alphabet, k) = c

RECURSIVE StrLessFrom(_, _, _)
StrLessFrom(a, b, k) ==
  IF k > Len(a) THEN k <= Len(b)
  ELSE IF k > Len(b) THEN FALSE
  ELSE IF CharAt(a, k) = CharAt(b, k) THEN StrLessFrom(a, b, k + 1)
  ELSE Ord(CharAt(a, k)) < Ord(CharAt(b, k))

\* Python's str < str : lexicographic by code point
StrLess(a, b) == StrLessFrom(a, b, 1)
StrLeq(a, b) == a = b \/ StrLess(a, b)

\* str.split(sep) for a one-character separator: the list of fields
RECURSIVE SplitFrom(_, _, _, _)
SplitFrom(s, sep, k, cur) ==
  IF k > Len(s) THEN <<cur>>
  ELSE IF CharAt(s, k) = sep THEN <<cur>> \o SplitFrom(s, sep, k + 1, "")
  ELSE SplitFrom(s, sep, k + 1, cur \o CharAt(s, k))

Split(s, sep) == SplitFrom(s, sep, 1, "")

\* str.replace(old, "") : every non-overlapping occurrence of old removed, left to right
RECURSIVE RemoveAllFrom(_, _, _)
RemoveAllFrom(s, old, k) ==
  IF k > Len(s) THEN ""
  ELSE IF k + Len(old) - 1 <= Len(s) /\ SubSeq(s, k, k + Len(old) - 1) = old
       THEN RemoveAllFrom(s, old, k + Len(old))
       ELSE CharAt(s, k) \o RemoveAllFrom(s, old, k + 1)

RemoveAll(s, old) == RemoveAllFrom(s, old, 1)

\* Python slice s[a:b] with 0 <= a <= b (clipped to the string)
Slice(s, a, b) == SubSeq(s, Min(a, Len(s)) + 1, Min(b, Len(s)))

\* str.strip_chars() : leading and trailing whitespace removed
RECURSIVE StripLeft(_)
StripLeft(s) ==
  IF Len(s) > 0 /\ CharAt(s, 1) = " " THEN StripLeft(SubSeq(s, 2, Len(s))) ELSE s

RECURSIVE StripRight(_)
StripRight(s) ==
  IF Len(s) > 0 /\ CharAt(s, Len(s)) = " " THEN StripRight(SubSeq(s, 1, Len(s) - 1)) ELSE s

StripChars(s) == StripRight(StripLeft(s))

\* sorted(S) for a finite set of distinct strings
SortedStrings(S) ==
  CHOOSE s \in [1..Cardinality(S) -> S] :
    \A a, b \in 1..Cardinality(S) : a < b => StrLess(s[a], s[b])

-----------------------------------------------------------------------------
(* Numbers: sums and polars division                                       *)

RECURSIVE SumOf(_, _)
\* sum of f[r] over the rows r of S, nulls skipped; 0 for an empty or all-null
\* column (polars >= 0.20, required here by LazyFrame.collect_schema)
SumOf(S, f) ==
  IF S = {} THEN 0
  ELSE LET r == CHOOSE x \in S : TRUE
       IN (IF IsNull(f[r]) THEN 0 ELSE Val(f[r])) + SumOf(S \ {r}, f)

\* (mutant of PolarsDiv: the operands exchanged)
PolarsDiv_swapped(a, b) ==
  IF IsNull(a) \/ IsNull(b) THEN [k |-> "null"]
  ELSE IF Val(a) = 0 THEN (IF Val(b) = 0 THEN [k |-> "nan"] ELSE [k |-> "inf"])
  ELSE [k |-> "num", n |-> Val(b), d |-> Val(a)]

\* pl.col(a) / pl.col(b): true division into Float64; null if either side is
\* null, IEEE inf / NaN on a zero divisor, never an exception
PolarsDiv(a, b) ==
  IF IsNull(a) \/ IsNull(b) THEN [k |-> "null"]
  ELSE IF Val(b) = 0 THEN (IF Val(a) = 0 THEN [k |-> "nan"] ELSE [k |-> "inf"])
  ELSE [k |-> "num", n |-> Val(a), d |-> Val(b)]

-----------------------------------------------------------------------------
(* Period tokens from file names                                           *)

\* FNMA: p.stem.split("_")[-1]
extract_month_mlld(stem) ==
  LET parts == Split(stem, "_") IN parts[Len(parts)]

\* FHLMC: raw = p.stem.replace("fu", ""); "20" + raw[:2] + raw[2:4]
extract_month_fhlmc(stem) ==
  LET raw == RemoveAll(stem, "fu")
      yy == Slice(raw, 0, 2)
      mm == Slice(raw, 2, 4)
      yyyy == "20" \o yy
  IN yyyy \o mm

\* GNMA: f.stem.split("_")[1]
extract_month_gnma(stem) == Split(stem, "_")[2]

extract_month(stem) ==
  CASE pipeline = "mlld" -> extract_month_mlld(stem)
    [] pipeline = "fhlmc" -> extract_month_fhlmc(stem)
    [] OTHER -> extract_month_gnma(stem)

-----------------------------------------------------------------------------
(* The data directories and the snapshots a period file can hold           *)

MlldStems == {"FNM_MLLD_201906", "FNM_MLLD_201907"}
\* FU names carry the day of month: two files can fall in one month
FhlmcStems == {"fu190606", "fu190706", "fu190720"}

Servicers == {"A", "B"}
LoanIds == {"L1", "L2"}

\* the tables a monthly MLLD / FU file can hold, projected on COLS: loan
\* identifiers are unique within a file, servicer and balance are not null
Snapshots ==
  UNION { { { [id |-> l, servicer |-> g[l][1], upb |-> g[l][2]] : l \in I } :
            g \in [I -> Servicers \X (0..MaxUpb)] } : I \in SUBSET LoanIds }

-----------------------------------------------------------------------------
(* Differencing step (FNMA MLLD and FHLMC FU share this code)              *)

\* (mutant of servicer_book: every servicer given the totals of the whole file)
servicer_book_ungrouped(df) ==
  { [servicer |-> s,
     total_n |-> Cardinality(df),
     total_upb |-> SumOf(df, [r \in df |-> Some(r.upb)])] :
    s \in {r.servicer : r \in df} }

\* df.group_by("Servicer Name").agg(count of Loan Identifier, sum of UPB)
servicer_book(df) ==
  { [servicer |-> s,
     total_n |-> Cardinality({r \in df : r.servicer = s}),
     total_upb |-> SumOf({r \in df : r.servicer = s},
                         [r \in df |-> Some(r.upb)])] :
    s \in {r.servicer : r \in df} }

seller_totals(prev) == servicer_book(prev)
buyer_totals(curr) == servicer_book(curr)

\* .join(totals, on=<servicer column>, how="left"): the matching totals row or null
left_join(totals, s) ==
  IF \E t \in totals : t.servicer = s
  THEN Some(CHOOSE t \in totals : t.servicer = s)
  ELSE Null

Col(m, col) == IF IsNull(m) THEN Null ELSE Some(Val(m)[col])

\* df_prev.select(...).join(df_curr.select(...), on="Loan Identifier", how="inner")
joined_of(prev, curr) ==
  { [id |-> a.id, servicer_from |-> a.servicer, upb_from |-> a.upb,
     servicer_to |-> b.servicer, upb_to |-> b.upb] :
    <<a, b>> \in {p \in prev \X curr : p[1].id = p[2].id} }

\* joined.filter(pl.col("servicer_from") != pl.col("servicer_to"))
changed_of(jn) == {r \in jn : r.servicer_from /= r.servicer_to}

\* (mutant of step_month: the step tagged with the origin period)
step_month_origin(month_prev, month_curr) == month_prev

\* the period every row of the step is tagged with: pl.lit(month_curr)
step_month(month_prev, month_curr) == month_curr

\* changed.group_by("servicer_from", "servicer_to").agg(...) ... .drop(...)
diff_agg(ch, prev, curr, month) ==
  { LET grp == {r \in ch : r.servicer_from = key[1] /\ r.servicer_to = key[2]}
        n_loans == Cardinality(grp)
        total_upb_from == SumOf(grp, [r \in grp |-> Some(r.upb_from)])
        total_upb == SumOf(grp, [r \in grp |-> Some(r.upb_to)])
        st == left_join(seller_totals(prev), key[1])
        bt == left_join(buyer_totals(curr), key[2])
    IN [servicer_from |-> key[1],
        servicer_to |-> key[2],
        n_loans |-> n_loans,
        total_upb |-> total_upb,
        transition_month |-> month,
        frac_seller_n |-> PolarsDiv(Some(n_loans), Col(st, "total_n")),
        frac_seller_upb |-> PolarsDiv(Some(total_upb_from), Col(st, "total_upb")),
        frac_buyer_n |-> PolarsDiv(Some(n_loans), Col(bt, "total_n")),
        frac_buyer_upb |-> PolarsDiv(Some(total_upb), Col(bt, "total_upb"))] :
    key \in {<<r.servicer_from, r.servicer_to>> : r \in ch} }

-----------------------------------------------------------------------------
(* GNMA: reference files and the issuer lookup                             *)

\* text_content.str.slice(0, 4): width of the issuer id field
IdWidth == 4
\* text_content.str.slice(4, 56): width of the issuer name field
NameWidth == 56

NissuesStems == {"nissues_201501_D"}
IssrcutoffStems == {"issrcutoff_201601", "issrcutoff_201602"}

\* rows a nissues D file can hold (Issuer Number, Issuer Name)
NissuesRows ==
  { [issuer_id |-> "1001", issuer_name |-> "OLD ONE"],
    [issuer_id |-> "1002", issuer_name |-> "OLD TWO"] }

\* fixed-width lines an issrcutoff file can hold
IssrcutoffLines == {"1001NEW ONE", "1001 ONE B "}

SeqsUpTo(S, n) == UNION {[1..k -> S] : k \in 0..n}

\* .with_columns(slice(0, 4).strip_chars(), slice(4, 56).strip_chars())
parse_issrcutoff(line) ==
  [issuer_id |-> StripChars(Slice(line, 0, IdWidth)),
   issuer_name |-> StripChars(Slice(line, IdWidth, IdWidth + NameWidth))]

\* (mutant of fill_name_map: an id already present keeps its name)
RECURSIVE fill_name_map_keep_first(_, _)
fill_name_map_keep_first(map, rows) ==
  IF rows = << >> THEN map
  ELSE fill_name_map_keep_first(map @@ (Head(rows).issuer_id :> Head(rows).issuer_name),
                                Tail(rows))

\* for row in df.iter_rows(named=True): name_map[row["issuer_id"]] = row["issuer_name"]
RECURSIVE fill_name_map(_, _)
fill_name_map(map, rows) ==
  IF rows = << >> THEN map
  ELSE fill_name_map((Head(rows).issuer_id :> Head(rows).issuer_name) @@ map,
                     Tail(rows))

\* name_map.get(iid, f"ID:{iid}")
lookup_name(map, iid) ==
  IF iid \in DOMAIN map THEN map[iid] ELSE "ID:" \o iid

issuer_name(iid) == lookup_name(name_map, iid)

-----------------------------------------------------------------------------
(* GNMA: period files, deduplication, balance parsing                      *)

Llmon1Stems == {"llmon1_201503_L", "llmon1_201504_L"}
Llmon2Stems == {"llmon2_201504_L", "llmon2_201505_L"}

\* first period processed: extract_month(f) >= "201504"
FirstMonth == "201504"

IssuerIds == {"1001", "1002"}
\* Seller Issuer ID: null, blank, or an issuer id
SellerValues == {Null, Some("    "), Some("1001")}
\* UPB as stored (a string, cents): empty after stripping, a number, not a number
UpbStrings == {" ", "150", "n"}
\* (Pool ID, loan sequence number): keys an llmon1 file / an llmon2 file can hold
LoanKeys == {<<"P1", "1">>, <<"P2", "1">>}
Llmon2Keys == {<<"P1", "1">>, <<"P1", "2">>}

LoanRow(key, issuer, seller, upb) ==
  [pool |-> key[1], loan_seq |-> key[2], issuer |-> issuer, seller |-> seller,
   upb |-> upb]

\* tables an L file can hold over the keys K: at most one row per key in a file
\* and at most n rows
LoanFramesUpTo(K, n) ==
  UNION { { { LoanRow(k, g[k][1], g[k][2], g[k][3]) : k \in I } :
            g \in [I -> IssuerIds \X SellerValues \X UpbStrings] } :
          I \in {J \in SUBSET K : Cardinality(J) <= n} }

LoanFrames(K) ==
  UNION { { { LoanRow(k, g[k][1], g[k][2], g[k][3]) : k \in I } :
            g \in [I -> IssuerIds \X SellerValues \X UpbStrings] } :
          I \in SUBSET K }

Digits == "0123456789"
IsDigit(c) == \E k \in 1..Len(Digits) : CharAt(Digits, k) = c
DigitVal(c) == (CHOOSE k \in 1..Len(Digits) : CharAt(Digits, k) = c) - 1

RECURSIVE ToNumber(_)
ToNumber(s) ==
  IF s = "" THEN 0
  ELSE 10 * ToNumber(SubSeq(s, 1, Len(s) - 1)) + DigitVal(CharAt(s, Len(s)))

\* .str.strip_chars().replace("", None).cast(pl.Float64, strict=False) / 100
\* The result is kept exactly, in hundredths of a dollar: Some(c) stands for c/100
parse_upb(raw) ==
  LET s == StripChars(raw)
  IN IF s = "" THEN Null
     ELSE IF \A k \in 1..Len(s) : IsDigit(CharAt(s, k)) THEN Some(ToNumber(s))
     ELSE Null

\* pl.concat(month_frames)
concat_frames(frames) == UNION {frames[k] : k \in DOMAIN frames}

KeyOf(r) == <<r.pool, r.loan_seq>>

\* .unique(subset=[COL_POOL, COL_LOAN]): keep defaults to "any", so which of the
\* rows sharing a key survives is not defined; every possible result
unique_results(rows) ==
  { d \in SUBSET rows :
      \A r \in rows : Cardinality({x \in d : KeyOf(x) = KeyOf(r)}) = 1 }

\* df_month.with_columns(... .alias("upb_dollars"))
with_upb_dollars(d) ==
  { [pool |-> r.pool, loan_seq |-> r.loan_seq, issuer |-> r.issuer,
     seller |-> r.seller, upb |-> r.upb, upb_dollars |-> parse_upb(r.upb)] :
    r \in d }

-----------------------------------------------------------------------------
(* GNMA: the per-period aggregation                                        *)

\* df_month.group_by(COL_ISSUER).agg(pl.len(), pl.col("upb_dollars").sum())
servicer_totals(dm) ==
  { [servicer |-> s,
     total_n |-> Cardinality({r \in dm : r.issuer = s}),
     total_upb |-> SumOf({r \in dm : r.issuer = s},
                         [r \in dm |-> r.upb_dollars])] :
    s \in {r.issuer : r \in dm} }

\* (mutant of transfers_of: the blank test dropped)
transfers_of_not_null(dm) == {r \in dm : ~IsNull(r.seller)}

\* df_month.filter(COL_SELLER.is_not_null() & (COL_SELLER.str.strip_chars() != ""))
transfers_of(dm) ==
  {r \in dm : ~IsNull(r.seller) /\ StripChars(Val(r.seller)) /= ""}

\* transfers.group_by(COL_SELLER).agg(pl.len(), pl.col("upb_dollars").sum())
seller_transferred(tr) ==
  { [servicer |-> s,
     xfer_n |-> Cardinality({r \in tr : Val(r.seller) = s}),
     xfer_upb |-> SumOf({r \in tr : Val(r.seller) = s},
                        [r \in tr |-> r.upb_dollars])] :
    s \in {Val(r.seller) : r \in tr} }

\* .fill_null(0)
fill_null(x, v) == IF IsNull(x) THEN Some(v) ELSE x

\* seller_transferred.join(seller_remaining, how="left") with the two sums
seller_book(tr, dm) ==
  { LET rem == left_join(servicer_totals(dm), x.servicer)
    IN [servicer |-> x.servicer,
        total_n |-> x.xfer_n + Val(fill_null(Col(rem, "total_n"), 0)),
        total_upb |-> x.xfer_upb + Val(fill_null(Col(rem, "total_upb"), 0))] :
    x \in seller_transferred(tr) }

\* transfers.group_by(COL_SELLER, COL_ISSUER).agg(...) ... .select(...)
gnma_agg(tr, dm, month, map) ==
  { LET grp == {r \in tr : Val(r.seller) = key[1] /\ r.issuer = key[2]}
        n_loans == Cardinality(grp)
        total_upb == SumOf(grp, [r \in grp |-> r.upb_dollars])
        bt == left_join(servicer_totals(dm), key[2])
        sb == left_join(seller_book(tr, dm), key[1])
    IN [seller_issuer_id |-> key[1],
        servicer_from |-> lookup_name(map, key[1]),
        issuer_id |-> key[2],
        servicer_to |-> lookup_name(map, key[2]),
        transition_month |-> month,
        n_loans |-> n_loans,
        total_upb |-> total_upb,
        frac_seller_n |-> PolarsDiv(Some(n_loans), Col(sb, "total_n")),
        frac_seller_upb |-> PolarsDiv(Some(total_upb), Col(sb, "total_upb")),
        frac_buyer_n |-> PolarsDiv(Some(n_loans), Col(bt, "total_n")),
        frac_buyer_upb |-> PolarsDiv(Some(total_upb), Col(bt, "total_upb"))] :
    key \in {<<Val(r.seller), r.issuer>> : r \in tr} }

-----------------------------------------------------------------------------
(* Combine and sort                                                        *)

RECURSIVE TotalRows(_)
TotalRows(res) ==
  IF res = << >> THEN 0 ELSE Cardinality(Head(res)) + TotalRows(Tail(res))

\* pl.concat(all_results): the rows of every per-step aggregate, with multiplicity
ConcatOrders(res) ==
  LET U == UNION {res[k] : k \in DOMAIN res}
      N == TotalRows(res)
  IN { c \in [1..N -> U] :
         \A r \in U : Cardinality({j \in 1..N : c[j] = r})
                      = Cardinality({k \in DOMAIN res : r \in res[k]}) }

\* (mutant of sort_key_leq: n_loans ascending)
sort_key_leq_ascending(r1, r2) ==
  \/ StrLess(r1.transition_month, r2.transition_month)
  \/ /\ r1.transition_month = r2.transition_month
     /\ r1.n_loans <= r2.n_loans

\* the order of .sort(["transition_month", "n_loans"], descending=[False, True])
sort_key_leq(r1, r2) ==
  \/ StrLess(r1.transition_month, r2.transition_month)
  \/ /\ r1.transition_month = r2.transition_month
     /\ r1.n_loans >= r2.n_loans

\* every table the sort may return: the sort is not asked to maintain the
\* order of rows with equal keys, and group_by returns groups in no set order
sorted_outputs(res) ==
  { c \in ConcatOrders(res) :
      \A a, b \in DOMAIN c : a < b => sort_key_leq(c[a], c[b]) }

-----------------------------------------------------------------------------
(* State machine: the two differencing scripts                             *)

Differencing == pipeline \in {"mlld", "fhlmc"}

GnmaIdle ==
  UNCHANGED <<name_map, refs, month_frames, skipped, df_month, transfers>>

\* (mutant of load_fails: the read error swallowed)
load_fails_never(f) == FALSE

\* what opening file f finds: the file can be read, or it cannot
Open(f) == unreadable' \in {unreadable, unreadable \cup {f}}

\* pl.scan_parquet(path)....collect() / .collect_schema() raises on a file that
\* cannot be read; nothing catches it
load_fails(f) == f \in unreadable'

\* an uncaught exception: main() is left, nothing is written
Crash ==
  /\ pc' = "crashed"
  /\ UNCHANGED <<pipeline, disk, files, i, df_prev, df_curr, changed,
                 all_results, combined, name_map, refs, month_frames, skipped,
                 df_month, transfers, held, trace>>

\* the local names of main() that are bound to row-level data
Locals ==
  {"df_prev", "df_curr", "joined", "changed",
   "df", "month_frames", "df_month", "transfers"}

\* files = sorted(DATA_DIR.glob(...)); the range print indexes files[0]
DiscoverFiles ==
  /\ Differencing
  /\ pc = "start"
  /\ files' = SortedStrings(disk)
  /\ pc' = IF disk = {} THEN "crashed" ELSE "load_first"
  /\ UNCHANGED <<pipeline, disk, unreadable, i, df_prev, df_curr, changed,
                 all_results, combined, held, trace>>
  /\ GnmaIdle

\* (mutant of LoopOrFinish: the loop stops one file early)
LoopOrFinish_early(n) == IF n + 1 < Len(files) THEN "load" ELSE "finish"

\* the for-loop header: range(1, len(files))
LoopOrFinish(n) == IF n < Len(files) THEN "load" ELSE "finish"

\* df_prev = load_month(files[0])
LoadFirst ==
  /\ Differencing
  /\ pc = "load_first"
  /\ Open(files[1])
  /\ IF load_fails(files[1])
     THEN Crash
     ELSE /\ \E snap \in Snapshots : df_prev' = snap
          /\ held' = [held EXCEPT !["df_prev"] = {files[1]}]
          /\ trace' = Append(trace, <<"load", files[1]>>)
          /\ i' = 1
          /\ pc' = LoopOrFinish(1)
          /\ UNCHANGED <<pipeline, disk, files, df_curr, changed,
                         all_results, combined>>
          /\ GnmaIdle

\* df_curr = load_month(files[i])
LoadCurr ==
  /\ Differencing
  /\ pc = "load"
  /\ Open(files[i + 1])
  /\ IF load_fails(files[i + 1])
     THEN Crash
     ELSE /\ \E snap \in Snapshots : df_curr' = snap
          /\ held' = [held EXCEPT !["df_curr"] = {files[i + 1]}]
          /\ trace' = Append(trace, <<"load", files[i + 1]>>)
          /\ pc' = "compare"
          /\ UNCHANGED <<pipeline, disk, files, i, df_prev, changed,
                         all_results, combined>>
          /\ GnmaIdle

\* totals, join, filter, and (if n_changed > 0) aggregate and append
Compare ==
  /\ Differencing
  /\ pc = "compare"
  /\ LET month_prev == extract_month(files[i])
         month_curr == extract_month(files[i + 1])
         ch == changed_of(joined_of(df_prev, df_curr))
     IN /\ changed' = ch
        /\ all_results' =
             IF Cardinality(ch) > 0
             THEN Append(all_results,
                         diff_agg(ch, df_prev, df_curr, step_month(month_prev, month_curr)))
             ELSE all_results
  /\ held' = [held EXCEPT !["joined"] = held["df_prev"] \cup held["df_curr"],
                          !["changed"] = held["df_prev"] \cup held["df_curr"]]
  /\ trace' = Append(trace, <<"step", held["df_prev"], held["df_curr"]>>)
  /\ pc' = "slide"
  /\ UNCHANGED <<pipeline, disk, unreadable, files, i, df_prev, df_curr, combined>>
  /\ GnmaIdle

\* df_prev = df_curr; del joined, changed; gc.collect(); next i
Slide ==
  /\ Differencing
  /\ pc = "slide"
  /\ df_prev' = df_curr
  /\ changed' = Null
  /\ i' = i + 1
  /\ held' = [held EXCEPT !["df_prev"] = held["df_curr"],
                          !["joined"] = {}, !["changed"] = {}]
  /\ pc' = LoopOrFinish(i + 1)
  /\ UNCHANGED <<pipeline, disk, unreadable, files, df_curr, all_results, combined,
                 trace>>
  /\ GnmaIdle

\* if not all_results: return; else concat, sort, write_csv
Finish ==
  /\ pc = "finish"
  /\ IF all_results = << >>
     THEN combined' = Null
     ELSE \E c \in sorted_outputs(all_results) : combined' = Some(c)
  /\ pc' = "done"
  /\ UNCHANGED <<pipeline, disk, unreadable, files, i, df_prev, df_curr, changed,
                 all_results, held, trace>>
  /\ GnmaIdle

-----------------------------------------------------------------------------
(* State machine: the GNMA script                                          *)

Gnma == pipeline = "gnma"

DiffIdle == UNCHANGED <<df_prev, df_curr, changed>>

nissues_files == SortedStrings(disk.nissues)
issrcutoff_files == SortedStrings(disk.issrcutoff)

\* where build_issuer_lookup() stands after n nissues and c issrcutoff files
LookupPc(n, c) ==
  IF n < Len(nissues_files) THEN "nissues"
  ELSE IF c < Len(issrcutoff_files) THEN "issrcutoff"
  ELSE "discover"

\* name_map = {}; nissues_files = sorted(NISSUES_DIR.glob("*.parquet"))
StartLookup ==
  /\ Gnma
  /\ pc = "start"
  /\ name_map' = << >>
  /\ pc' = LookupPc(0, 0)
  /\ UNCHANGED <<pipeline, disk, unreadable, files, i, all_results, combined, refs,
                 month_frames, skipped, df_month, transfers, held, trace>>
  /\ DiffIdle

\* one iteration of `for f in nissues_files`
ReadNissues ==
  /\ Gnma
  /\ pc = "nissues"
  /\ Open(nissues_files[Len(refs.nissues) + 1])
  /\ IF load_fails(nissues_files[Len(refs.nissues) + 1])
     THEN Crash
     ELSE /\ \E rows \in SeqsUpTo(NissuesRows, MaxRefRows) :
               /\ name_map' = fill_name_map(name_map, rows)
               /\ refs' = [refs EXCEPT !.nissues = Append(@, rows)]
          /\ pc' = LookupPc(Len(refs.nissues) + 1, 0)
          /\ UNCHANGED <<pipeline, disk, files, i, all_results, combined,
                         month_frames, skipped, df_month, transfers, held, trace>>
          /\ DiffIdle

\* one iteration of `for f in issrcutoff_files`
ReadIssrcutoff ==
  /\ Gnma
  /\ pc = "issrcutoff"
  /\ Open(issrcutoff_files[Len(refs.issrcutoff) + 1])
  /\ IF load_fails(issrcutoff_files[Len(refs.issrcutoff) + 1])
     THEN Crash
     ELSE /\ \E lines \in SeqsUpTo(IssrcutoffLines, MaxRefRows) :
               /\ name_map' = fill_name_map(name_map,
                                [k \in DOMAIN lines |-> parse_issrcutoff(lines[k])])
               /\ refs' = [refs EXCEPT !.issrcutoff = Append(@, lines)]
          /\ pc' = LookupPc(Len(refs.nissues), Len(refs.issrcutoff) + 1)
          /\ UNCHANGED <<pipeline, disk, files, i, all_results, combined,
                         month_frames, skipped, df_month, transfers, held, trace>>
          /\ DiffIdle

\* [f for f in sorted(glob) if extract_month(f) >= "201504"]
llmon_files(stems) ==
  SelectSeq(SortedStrings(stems),
            LAMBDA f : StrLeq(FirstMonth, extract_month_gnma(f)))

\* files_by_month.setdefault(extract_month(f), []).append(f) over llmon1 + llmon2
files_by_month(l1, l2) ==
  [m \in {extract_month_gnma((l1 \o l2)[k]) : k \in DOMAIN (l1 \o l2)} |->
     SelectSeq(l1 \o l2, LAMBDA f : extract_month_gnma(f) = m)]

\* discovery of the L files; the range print indexes months[0]
DiscoverMonths ==
  /\ Gnma
  /\ pc = "discover"
  /\ LET by_month == files_by_month(llmon_files(disk.llmon1), llmon_files(disk.llmon2))
         months == SortedStrings(DOMAIN by_month)
     IN /\ files' = [months |-> months, by_month |-> by_month]
        /\ pc' = IF months = << >> THEN "crashed" ELSE "read"
  /\ i' = 0
  /\ month_frames' = << >>
  /\ skipped' = {}
  /\ UNCHANGED <<pipeline, disk, unreadable, all_results, combined, name_map, refs,
                 df_month, transfers, held, trace>>
  /\ DiffIdle

month == files.months[i + 1]
month_files == files.by_month[month]

\* Bound on the inputs.  An llmon1 file holds any table over LoanKeys, an llmon2
\* file any table of at most one row over Llmon2Keys; when reference files
\* exist, every L file holds at most the first key, with a parseable balance.
LFileFrames(stem) ==
  IF disk.nissues \cup disk.issrcutoff /= {}
  THEN {fr \in LoanFrames({<<"P1", "1">>}) : \A r \in fr : r.upb = "150"}
  ELSE IF stem \in disk.llmon1 THEN LoanFrames(LoanKeys)
  ELSE LoanFramesUpTo(Llmon2Keys, 1)

\* one iteration of `for f in files_by_month[month]`
ReadMonthFile ==
  /\ Gnma
  /\ pc = "read"
  /\ LET j == Len(month_frames) + Cardinality(skipped) + 1
         f == month_files[j]
     IN /\ Open(f)
        /\ IF load_fails(f)
           THEN Crash
           ELSE /\ \/ \* neither loan-sequence column in the schema: continue
                      /\ skipped' = skipped \cup {f}
                      /\ UNCHANGED <<month_frames, held, trace>>
                   \/ \* df = lf.select(...).collect(); month_frames.append(df)
                      /\ \E fr \in LFileFrames(f) :
                           month_frames' = Append(month_frames, fr)
                      /\ held' = [held EXCEPT
                                    !["df"] = {f},
                                    !["month_frames"] = @ \cup {f}]
                      /\ trace' = Append(trace, <<"load", f>>)
                      /\ UNCHANGED skipped
                /\ pc' = IF j < Len(month_files) THEN "read" ELSE "process"
                /\ UNCHANGED <<pipeline, disk, files, i, all_results,
                               combined, name_map, refs, df_month, transfers>>
                /\ DiffIdle

\* concat + unique, balance parsing, totals, transfer filter, aggregation, append
ProcessMonth ==
  /\ Gnma
  /\ pc = "process"
  /\ IF month_frames = << >>
     THEN Crash /\ UNCHANGED unreadable    \* pl.concat([]) raises
     ELSE /\ \E d \in unique_results(concat_frames(month_frames)) :
               LET dm == with_upb_dollars(d)
                   tr == transfers_of(dm)
               IN /\ df_month' = dm
                  /\ transfers' = tr
                  /\ all_results' =
                       IF Cardinality(tr) > 0
                       THEN Append(all_results, gnma_agg(tr, dm, month, name_map))
                       ELSE all_results
          /\ held' = [held EXCEPT !["df_month"] = held["month_frames"],
                                  !["transfers"] = held["month_frames"]]
          /\ trace' = Append(trace, <<"step", month>>)
          /\ pc' = "release"
          /\ UNCHANGED <<pipeline, disk, unreadable, files, i, combined, name_map,
                         refs, month_frames, skipped>>
          /\ DiffIdle

\* del df_month, transfers, month_frames, servicer_totals; gc.collect(); next month
\* (month_frames = [] of the next iteration is folded in)
ReleaseMonth ==
  /\ Gnma
  /\ pc = "release"
  /\ df_month' = Null
  /\ transfers' = Null
  /\ month_frames' = << >>
  /\ skipped' = {}
  /\ i' = i + 1
  /\ held' = [held EXCEPT !["df_month"] = {}, !["transfers"] = {},
                          !["month_frames"] = {}]
  /\ pc' = IF i + 1 < Len(files.months) THEN "read" ELSE "finish"
  /\ UNCHANGED <<pipeline, disk, unreadable, files, all_results, combined, name_map,
                 refs, trace>>
  /\ DiffIdle

-----------------------------------------------------------------------------
(* Initial states: the script that runs and what the directories hold      *)

\* Directories of a GNMA run.  Either the reference directories hold files and
\* there is a single L file, or they are empty and the L directories vary (the
\* file of the month before FirstMonth comes without llmon2 files).
GnmaDisks ==
  { [nissues |-> n, issrcutoff |-> c, llmon1 |-> {"llmon1_201504_L"}, llmon2 |-> {}] :
      <<n, c>> \in {x \in (SUBSET NissuesStems) \X (SUBSET IssrcutoffStems) :
                     x[1] \cup x[2] /= {}} }
  \cup
  { [nissues |-> {}, issrcutoff |-> {}, llmon1 |-> l1, llmon2 |-> l2] :
      <<l1, l2>> \in {x \in (SUBSET Llmon1Stems) \X (SUBSET Llmon2Stems) :
                       "llmon1_201503_L" \in x[1] => x[2] = {}} }

AllStems(d) == d.nissues \cup d.issrcutoff \cup d.llmon1 \cup d.llmon2

Init ==
  /\ pipeline \in {"mlld", "fhlmc", "gnma"}
  /\ disk \in CASE pipeline = "mlld" -> SUBSET MlldStems
                [] pipeline = "fhlmc" -> SUBSET FhlmcStems
                [] OTHER -> GnmaDisks
  /\ unreadable = {}
  /\ pc = "start"
  /\ files = << >>
  /\ i = 0
  /\ df_prev = Null
  /\ df_curr = Null
  /\ changed = Null
  /\ all_results = << >>
  /\ combined = Null
  /\ name_map = << >>
  /\ refs = [nissues |-> << >>, issrcutoff |-> << >>]
  /\ month_frames = << >>
  /\ skipped = {}
  /\ df_month = Null
  /\ transfers = Null
  /\ held = [n \in Locals |-> {}]
  /\ trace = << >>

Next ==
  \/ DiscoverFiles
  \/ LoadFirst
  \/ LoadCurr
  \/ Compare
  \/ Slide
  \/ StartLookup
  \/ ReadNissues
  \/ ReadIssrcutoff
  \/ DiscoverMonths
  \/ ReadMonthFile
  \/ ProcessMonth
  \/ ReleaseMonth
  \/ Finish

Spec == Init /\ [][Next]_vars

-----------------------------------------------------------------------------
(* Properties                                                              *)

Last(q) == q[Len(q)]
Rows(q) == {q[k] : k \in DOMAIN q}

\* the rows the differencing step just finished has appended (none if n_changed = 0)
DiffStepRows == IF changed = {} THEN {} ELSE Last(all_results)

\* loans present in both snapshots that went from servicer f to servicer t
Movers(f, t) ==
  { l \in LoanIds : \E a \in df_prev, b \in df_curr :
      a.id = l /\ b.id = l /\ a.servicer = f /\ b.servicer = t }

\* C1: after a differencing step on (A, B) the appended rows are exactly one
\* row per pair (from, to), from /= to, with at least one loan that is in both
\* A and B and went from `from` to `to`; the row carries the period of B and
\* counts those loans.  Loans in one snapshot only, or with the same servicer
\* in both, are in no row.
C1_TransitionRows ==
  (Differencing /\ pc = "slide") =>
    { [from |-> r.servicer_from, to |-> r.servicer_to,
       period |-> r.transition_month, n_loans |-> r.n_loans] : r \in DiffStepRows }
    = { [from |-> ft[1], to |-> ft[2],
         period |-> extract_month(files[i + 1]),
         n_loans |-> Cardinality(Movers(ft[1], ft[2]))] :
        ft \in {x \in Servicers \X Servicers :
                  x[1] /= x[2] /\ Movers(x[1], x[2]) /= {}} }

\* a step with one mover, one loan that kept its servicer, and the rows of the step
C1_Witness ==
  /\ Differencing /\ pc = "slide"
  /\ Cardinality(DiffStepRows) = 1
  /\ \E a \in df_prev, b \in df_curr : a.id = b.id /\ a.servicer = b.servicer
  /\ \E a \in df_prev, b \in df_curr : a.id = b.id /\ a.servicer /= b.servicer
  /\ extract_month(files[i]) /= extract_month(files[i + 1])

\* the rows the GNMA step just finished has appended (none if n_transfers = 0)
GnmaStepRows == IF transfers = {} THEN {} ELSE Last(all_results)

Populated(r) == ~IsNull(r.seller) /\ StripChars(Val(r.seller)) /= ""

\* deduplicated loans of the period sold by s to b
Sold(s, b) == {r \in df_month : Populated(r) /\ Val(r.seller) = s /\ r.issuer = b}

\* C2: after a GNMA step the appended rows are exactly the (prior servicer,
\* current issuer) groups of the period's deduplicated loans whose prior
\* servicer is neither null nor blank; n_loans is the group size, the buyer
\* denominator counts the period's loans whose issuer is the buyer, and the
\* seller denominator counts the loans the seller still holds (0 if none)
\* plus the loans whose prior servicer is the seller.
C2_FlaggedRows ==
  (Gnma /\ pc = "release") =>
    { [from |-> r.seller_issuer_id, to |-> r.issuer_id,
       period |-> r.transition_month, n_loans |-> r.n_loans,
       frac_seller_n |-> r.frac_seller_n, frac_buyer_n |-> r.frac_buyer_n] :
      r \in GnmaStepRows }
    = { [from |-> Val(x.seller), to |-> x.issuer, period |-> month,
         n_loans |-> Cardinality(Sold(Val(x.seller), x.issuer)),
         frac_seller_n |->
           [k |-> "num", n |-> Cardinality(Sold(Val(x.seller), x.issuer)),
            d |-> Cardinality({r \in df_month : r.issuer = Val(x.seller)})
                  + Cardinality({r \in df_month :
                                   Populated(r) /\ Val(r.seller) = Val(x.seller)})],
         frac_buyer_n |->
           [k |-> "num", n |-> Cardinality(Sold(Val(x.seller), x.issuer)),
            d |-> Cardinality({r \in df_month : r.issuer = x.issuer})]] :
        x \in {r \in df_month : Populated(r)} }

\* one transfer from a seller that holds nothing, beside a loan with a blank seller
C2_Witness ==
  /\ Gnma /\ pc = "release"
  /\ Cardinality(GnmaStepRows) = 1
  /\ \E r \in df_month : ~IsNull(r.seller) /\ ~Populated(r)
  /\ \E r \in GnmaStepRows :
       /\ r.frac_buyer_n = [k |-> "num", n |-> 1, d |-> 2]
       /\ r.frac_seller_n = [k |-> "num", n |-> 1, d |-> 1]

InUnitInterval(f) == (f.k = "num" /\ f.d > 0) => (0 <= f.n /\ f.n <= f.d)

\* C3: in every row of the final output, a count fraction whose denominator
\* is defined and positive lies between 0 and 1.
C3_CountFractions ==
  ~IsNull(combined) =>
    \A r \in Rows(Val(combined)) :
      InUnitInterval(r.frac_seller_n) /\ InUnitInterval(r.frac_buyer_n)

\* a final row selling half of the seller's book, which is all of the buyer's
C3_Witness ==
  /\ ~IsNull(combined)
  /\ \E r \in Rows(Val(combined)) :
       /\ r.frac_seller_n = [k |-> "num", n |-> 1, d |-> 2]
       /\ r.frac_buyer_n = [k |-> "num", n |-> 1, d |-> 1]

Fractions == {"frac_seller_n", "frac_seller_upb", "frac_buyer_n", "frac_buyer_upb"}

\* C4: every fraction of every aggregate row is either a quotient with a
\* non-zero denominator or the missing value: a zero or missing denominator
\* never yields a number (nor inf or NaN).
C4_GuardedDivision ==
  \A k \in DOMAIN all_results : \A r \in all_results[k] : \A f \in Fractions :
    r[f].k \in {"num", "null"}

\* C5: the final output is non-decreasing in period and, among rows of one
\* period, non-increasing in n_loans.
C5_SortOrder ==
  ~IsNull(combined) =>
    \A a, b \in DOMAIN Val(combined) :
      a < b =>
        LET x == Val(combined)[a]
            y == Val(combined)[b]
        IN /\ StrLeq(x.transition_month, y.transition_month)
           /\ x.transition_month = y.transition_month => x.n_loans >= y.n_loans

\* a final output over two periods in which one period has rows of different counts
C5_Witness ==
  /\ ~IsNull(combined)
  /\ \E a, b, c \in DOMAIN Val(combined) :
       /\ Val(combined)[a].transition_month /= Val(combined)[b].transition_month
       /\ Val(combined)[b].transition_month = Val(combined)[c].transition_month
       /\ Val(combined)[b].n_loans /= Val(combined)[c].n_loans

Origin(r) == IF Gnma THEN r.seller_issuer_id ELSE r.servicer_from
Destination(r) == IF Gnma THEN r.issuer_id ELSE r.servicer_to

\* C6: no two rows of the final output share (origin, destination, period).
C6_OneRowPerTriple ==
  ~IsNull(combined) =>
    \A a, b \in DOMAIN Val(combined) :
      a /= b =>
        LET x == Val(combined)[a]
            y == Val(combined)[b]
        IN <<Origin(x), Destination(x), x.transition_month>>
           /= <<Origin(y), Destination(y), y.transition_month>>

SourceRow(r) ==
  [pool |-> r.pool, loan_seq |-> r.loan_seq, issuer |-> r.issuer,
   seller |-> r.seller, upb |-> r.upb]

\* the last of the period's frames that holds the key
LastSource(key) ==
  CHOOSE k \in DOMAIN month_frames :
    /\ \E r \in month_frames[k] : KeyOf(r) = key
    /\ \A m \in DOMAIN month_frames :
         (\E r \in month_frames[m] : KeyOf(r) = key) => m <= k

\* C7: the merged period holds exactly one row per (pool, loan sequence) key,
\* and for a key in several sources it is the row of the later source.
C7_LaterSourceWins ==
  (Gnma /\ pc = "release") =>
    \A key \in {KeyOf(r) : r \in concat_frames(month_frames)} :
      /\ Cardinality({r \in df_month : KeyOf(r) = key}) = 1
      /\ \A r \in df_month :
           KeyOf(r) = key => SourceRow(r) \in month_frames[LastSource(key)]

\* the balance string is a number (digits only, after stripping)
Parseable(raw) ==
  /\ StripChars(raw) /= ""
  /\ \A k \in 1..Len(StripChars(raw)) : IsDigit(CharAt(StripChars(raw), k))

\* C8: a loan whose balance is empty or not a number has a missing balance; it
\* is left out of every balance sum and still counted; and a sum over loans
\* that all miss their balance is not reported as zero.
C8_MissingBalance ==
  (Gnma /\ pc = "release") =>
    /\ \A r \in df_month : ~Parseable(r.upb) => IsNull(r.upb_dollars)
    /\ \A r \in GnmaStepRows :
         LET grp == Sold(r.seller_issuer_id, r.issuer_id)
             known == {x \in grp : Parseable(x.upb)}
         IN /\ r.n_loans = Cardinality(grp)
            /\ r.total_upb = SumOf(known, [x \in known |-> x.upb_dollars])
            /\ known = {} => r.total_upb /= 0

RECURSIVE Flatten(_)
Flatten(q) == IF q = << >> THEN << >> ELSE Head(q) \o Flatten(Tail(q))

\* the name the last row for iid gives, among rows (a sequence of id/name records)
LastNameFor(rows, iid) ==
  rows[CHOOSE k \in DOMAIN rows :
         /\ rows[k].issuer_id = iid
         /\ \A m \in DOMAIN rows : rows[m].issuer_id = iid => m <= k].issuer_name

Mentions(rows, iid) == \E k \in DOMAIN rows : rows[k].issuer_id = iid

IssrcutoffRead ==
  LET lines == Flatten(refs.issrcutoff)
  IN [k \in DOMAIN lines |->
        [issuer_id |-> StripChars(SubSeq(lines[k], 1, 4)),
         issuer_name |-> StripChars(SubSeq(lines[k], 5, Len(lines[k])))]]

ProbeIds == {"1001", "1002", "1003", "    "}

\* C9: once the lookup is built, and through every step of the month loop, an
\* issuer id resolves to the name issrcutoff gives it (last file, last line),
\* else to the name nissues gives it, else to "ID:" followed by the id.
C9_NameResolution ==
  (Gnma /\ pc \in {"discover", "read", "process", "release", "finish", "done"}) =>
    \A iid \in ProbeIds :
      issuer_name(iid) =
        IF Mentions(IssrcutoffRead, iid) THEN LastNameFor(IssrcutoffRead, iid)
        ELSE IF Mentions(Flatten(refs.nissues), iid)
             THEN LastNameFor(Flatten(refs.nissues), iid)
        ELSE "ID:" \o iid

\* in the month loop: 1001 named by both sources and by two issrcutoff files
\* that disagree, 1002 by nissues only, a row resolved through the lookup
C9_Witness ==
  /\ Gnma /\ pc = "release"
  /\ Len(refs.issrcutoff) = 2
  /\ Len(refs.issrcutoff[1]) > 0 /\ Len(refs.issrcutoff[2]) > 0
  /\ Last(refs.issrcutoff[1]) /= Last(refs.issrcutoff[2])
  /\ Mentions(Flatten(refs.nissues), "1001")
  /\ Mentions(Flatten(refs.nissues), "1002")
  /\ \E r \in GnmaStepRows : r.servicer_from /= "ID:" \o r.seller_issuer_id

\* the period files the month loop has to read, each with the (0-based) value
\* of i in the iteration that reads it; known once the files are discovered
RequiredFiles ==
  IF DOMAIN files = {} THEN {}
  ELSE IF Differencing THEN {<<files[k], k - 1>> : k \in DOMAIN files}
  ELSE UNION { {<<files.by_month[files.months[m]][k], m - 1>> :
                  k \in DOMAIN files.by_month[files.months[m]]} :
               m \in DOMAIN files.months }

\* C10 (as amended): a required period file that cannot be read ends the run
\* in that period's iteration - the loop never gets past it, the period is
\* never compared or aggregated, and nothing is written.
C10_UnreadableIsFatal ==
  \A fn \in RequiredFiles :
    fn[1] \in unreadable =>
      /\ i <= fn[2]
      /\ i = fn[2] => pc \in {"load_first", "load", "read", "crashed"}
      /\ IsNull(combined)

\* a run that crashed on an unreadable file after it had produced rows
C10_Witness ==
  /\ pc = "crashed"
  /\ all_results /= << >>
  /\ \E fn \in RequiredFiles : fn[1] \in unreadable /\ fn[2] = i

\* C10 (as claimed): besides unreadable files, an empty source and a source
\* passed over are fatal too: a run that has not crashed holds no empty
\* snapshot or frame and has skipped no file of the period.
C10_UnreadableOrEmptyIsFatal ==
  /\ C10_UnreadableIsFatal
  /\ (Differencing /\ pc \in {"load", "compare", "slide", "finish", "done"})
       => df_prev /= {}
  /\ (Differencing /\ pc \in {"compare", "slide"}) => df_curr /= {}
  /\ (Gnma /\ pc \in {"read", "process", "release"})
       => /\ skipped = {}
          /\ \A k \in DOMAIN month_frames : month_frames[k] /= {}

-----------------------------------------------------------------------------
(* Determinism of the output, denominators of the differencing step        *)

\* C11: the table written is determined by the inputs: the per-step
\* aggregates leave the combine-and-sort step only one table it can return,
\* whatever order group_by and sort give tied or unordered rows.
C11_Deterministic ==
  (pc = "done" /\ ~IsNull(combined)) => sorted_outputs(all_results) = {Val(combined)}

RECURSIVE Balance(_)
\* summed balance of a set of snapshot rows
Balance(rows) ==
  IF rows = {} THEN 0
  ELSE LET r == CHOOSE x \in rows : TRUE IN r.upb + Balance(rows \ {r})

\* n / d as a Float64 quotient
Ratio(n, d) ==
  IF d /= 0 THEN [k |-> "num", n |-> n, d |-> d]
  ELSE IF n = 0 THEN [k |-> "nan"] ELSE [k |-> "inf"]

\* the rows of snapshot df whose loan is among ids
RowsOf(df, ids) == {a \in df : a.id \in ids}

\* C12: in every row (from, to) of a differencing step on (A, B) the seller
\* fractions divide by the count and the summed balance of all loans of A
\* serviced by `from`, the buyer fractions by those of all loans of B serviced
\* by `to` (loans that stayed, and loans missing from the other snapshot,
\* included); the seller balance fraction divides the group's balance in A,
\* the buyer balance fraction the group's balance in B.
C12_Denominators ==
  (Differencing /\ pc = "slide") =>
    \A r \in DiffStepRows :
      LET grp == Movers(r.servicer_from, r.servicer_to)
          book_from == {a \in df_prev : a.servicer = r.servicer_from}
          book_to == {b \in df_curr : b.servicer = r.servicer_to}
      IN /\ r.frac_seller_n = Ratio(Cardinality(grp), Cardinality(book_from))
         /\ r.frac_seller_upb = Ratio(Balance(RowsOf(df_prev, grp)), Balance(book_from))
         /\ r.frac_buyer_n = Ratio(Cardinality(grp), Cardinality(book_to))
         /\ r.frac_buyer_upb = Ratio(Balance(RowsOf(df_curr, grp)), Balance(book_to))

\* a step whose seller keeps a loan that did not move (or that left the data),
\* whose buyer has a loan it did not buy, and whose group balance changed
C12_Witness ==
  /\ Differencing /\ pc = "slide"
  /\ \E r \in DiffStepRows :
       LET grp == Movers(r.servicer_from, r.servicer_to)
       IN /\ Balance(RowsOf(df_prev, grp)) /= Balance(RowsOf(df_curr, grp))
          /\ \/ Cardinality({a \in df_prev : a.servicer = r.servicer_from})
                  > Cardinality(grp)
             \/ Cardinality({b \in df_curr : b.servicer = r.servicer_to})
                  > Cardinality(grp)

-----------------------------------------------------------------------------
(* The window of retained snapshots, the order of the steps                *)

\* the period files whose rows some local name of main() still references
HeldFiles == UNION {held[n] : n \in Locals}

\* differencing: at most two snapshots; gnma: the data of at most one period
WithinWindow(fs) ==
  IF Differencing THEN Cardinality(fs) <= 2
  ELSE Cardinality({extract_month_gnma(f) : f \in fs}) <= 1

\* position of the period of file f in the discovered order
Position(f) ==
  IF Differencing THEN CHOOSE k \in DOMAIN files : files[k] = f
  ELSE CHOOSE k \in DOMAIN files.months : files.months[k] = extract_month_gnma(f)

\* this step loads a period file
Loads == Len(trace') = Len(trace) + 1 /\ Last(trace')[1] = "load"

\* C13: through every step of a run - a load included, during which the
\* objects bound before it are still referenced while the new frame is built -
\* the retained files are at most two snapshots (differencing) or belong to
\* at most one period (gnma); and when the file of period k+1 is loaded,
\* nothing of a period before k is still held.
C13_WindowBound ==
  [][ /\ WithinWindow(HeldFiles \cup HeldFiles')
      /\ Loads => \A h \in HeldFiles : Position(h) + 1 >= Position(Last(trace')[2])
    ]_vars

IsPrefix(p, q) == Len(p) <= Len(q) /\ \A j \in DOMAIN p : p[j] = q[j]

\* the discovered periods, in the order the loop runs over them
Discovered ==
  IF Differencing THEN files
  ELSE IF DOMAIN files = {} THEN << >> ELSE files.months

\* the loads and steps of a complete differencing run over the files fs:
\* load p0, then for each further file load p(k) and compare p(k-1) with p(k)
ExpectedDiffTrace(fs) ==
  [j \in 1..(2 * Len(fs) - 1) |->
     IF j = 1 THEN <<"load", fs[1]>>
     ELSE IF j % 2 = 0 THEN <<"load", fs[j \div 2 + 1]>>
     ELSE <<"step", {fs[(j - 1) \div 2]}, {fs[(j - 1) \div 2 + 1]}>>]

\* the periods a run has to cover: every file (differencing), every distinct
\* period from FirstMonth on among the L files (gnma)
PeriodsOnDisk ==
  IF Differencing THEN disk
  ELSE {m \in {extract_month_gnma(f) : f \in disk.llmon1 \cup disk.llmon2} :
          StrLeq(FirstMonth, m)}

StepsOf(t) == SelectSeq(t, LAMBDA e : e[1] = "step")

\* number of steps among the first j entries of trace
StepsBefore(j) == Cardinality({h \in 1..j : trace[h][1] = "step"})

RunComplete == pc \in {"finish", "done"}

\* C14: the discovered periods are those on disk, in ascending order.  A
\* differencing run loads the files in that order, each once, and its k-th
\* step compares the snapshot loaded k-th (kept from the step before) with the
\* one loaded (k+1)-th, N-1 steps for N files; a gnma run makes one step per
\* distinct period in that order, each after the loads of that period's files
\* and before any load of the next, no file loaded twice.  A run that has
\* not finished has done a prefix of this; a finished one all of it.
C14_StepOrder ==
  LET ps == Discovered
      steps == StepsOf(trace)
  IN /\ trace /= << >> =>
          /\ \A a, b \in DOMAIN ps : a < b => StrLess(ps[a], ps[b])
          /\ Rows(ps) = PeriodsOnDisk
     /\ IF Differencing
        THEN LET full == ExpectedDiffTrace(ps)
             IN /\ IsPrefix(trace, full)
                /\ RunComplete => trace = full
        ELSE /\ IsPrefix([k \in DOMAIN steps |-> steps[k][2]], ps)
             /\ RunComplete => Len(steps) = Len(ps)
             /\ \A j \in DOMAIN trace :
                  trace[j][1] = "load" =>
                    /\ StepsBefore(j) < Len(ps)
                    /\ extract_month_gnma(trace[j][2]) = ps[StepsBefore(j) + 1]
                    /\ \A h \in DOMAIN trace : trace[h] = trace[j] => h = j

\* a finished differencing run over three files: three loads, two steps
C14_Witness ==
  /\ Differencing /\ pc = "done"
  /\ Len(trace) = 5
  /\ Len(StepsOf(trace)) = 2

\* a finished gnma run over two periods, one of them with two files
C14_WitnessGnma ==
  /\ Gnma /\ pc = "done"
  /\ Len(StepsOf(trace)) = 2
  /\ Len(trace) = 5

====
